---- MODULE Spec2Model ----
(***************************************************************************)
(* Model of the sprinter agent: host registration (HostRegistrationService)*)
(* with its heartbeat loop, the systemd monitor loop                       *)
(* (SystemdMonitorService) and the two variants of main that sequence them.*)
(*                                                                         *)
(* Several callers drive the services:                                     *)
(*   Spec     - the program: main (polling-watcher variant and fixed-delay *)
(*              variant), restarted by the operator up to MaxRuns times;   *)
(*   ApiSpec  - a single-threaded caller of the exported methods of        *)
(*              HostRegistrationService (Start, Stop);                     *)
(*   MonApiSpec - a single-threaded caller of the exported methods of      *)
(*              SystemdMonitorService (Start, Stop);                       *)
(*   ActiveSpec - both services after startup, with callers of both Stops; *)
(*   ParseSpec - one report of a monitor, for every output of systemctl    *)
(*              within MaxLines and MaxFields;                             *)
(*   SysInfoSpec - one Start, for every host the introspection can meet    *)
(*              within MaxAddrs.                                           *)
(* The inventory service, the file system and the scheduler are the        *)
(* environment: each client call picks one of the outcomes the calling     *)
(* code distinguishes.                                                     *)
(***************************************************************************)
EXTENDS Integers, FiniteSets, Sequences, TLC

\* ---- bounds -------------------------------------------------------------
MaxRuns == 2        \* process runs (restarts + 1) in Spec
MaxStarts == 2      \* startHeartbeat goroutines a caller may have spawned (ApiSpec)
MaxMonStarts == 2   \* monitorLoop goroutines a caller may have spawned (ApiSpec)
MaxLines == 2       \* lines of systemctl output (ParseSpec)
MaxFields == 6      \* fields of one line of systemctl output
MaxAddrs == 2       \* addresses net.LookupIP returns (SysInfoSpec)
MaxTicks == 2       \* ticks of a loop that are counted (ActiveSpec)

\* ---- values -------------------------------------------------------------
NoRid == ""                       \* the empty host RID
Rids == {"h1", "h2"}              \* host RIDs the inventory service hands out
DefaultPath == "config/config.yaml"
Paths == {DefaultPath, "alt.yaml"}  \* values of the -config flag

HbIds == 1..MaxStarts             \* startHeartbeat goroutines
MonIds == 1..MaxMonStarts         \* monitorLoop goroutines

VARIABLES
  mode,         \* "polling" | "fixed" (variant of main) | "api" | "monapi"
  run,          \* number of the process run
  configPath,   \* value of the -config flag
  files,        \* host_rid stored in each configuration file
  created,      \* the last host this agent created, in this run or an earlier
                \* one: its host RID and whether SaveConfig succeeded
  mainPc,       \* position of main
  cfgUrl,       \* config.HostRegistration.SprinterURL != ""
  cfgHostRid,   \* config.HostRegistration.HostRid (in memory)
  clientOk,     \* HostRegistrationService.client != nil
  hostRid,      \* HostRegistrationService.hostRid
  regPc,        \* position of the running Start call: "idle" | "lookup" | "create"
  startResult,  \* what the last Start call returned
  att,          \* bookkeeping of the last registerHost call
  hbPc,         \* position of each startHeartbeat goroutine
  hbLast,       \* the last sendHeartbeat that returned: its goroutine and result
  hbStarts,     \* startHeartbeat goroutines spawned in this run
  hbStopChan,   \* HostRegistrationService.stopChan: "open" | "closed"
  hbRids,       \* host RIDs heartbeat calls were addressed to
  hbCount,      \* ticks taken and heartbeat calls issued by the heartbeat loop
  watcherPc,    \* position of main's watcher goroutine
  onceDone,     \* systemdStarted (sync.Once) has fired
  monExists,    \* a SystemdMonitorService has been constructed
  monHostRid,   \* SystemdMonitorService.hostRid
  monPc,        \* position of each monitorLoop goroutine
  monStarts,    \* monitorLoop goroutines spawned in this run
  monStopChan,  \* SystemdMonitorService.stopChan
  reportRids,   \* host RIDs report calls were addressed to
  monCount,     \* ticks taken and report calls issued by the monitor loop
  monLast,      \* the last reportSystemdServices: its goroutine, what systemctl
                \* did, the request body and the result of the PUT
  remote,       \* inventory service reachable: "up" | "down"
  crashed       \* the process panicked

vars == <<mode, run, configPath, files, created, mainPc, cfgUrl, cfgHostRid,
          clientOk,
          hostRid, regPc, startResult, att, hbPc, hbLast, hbStarts, hbStopChan,
          hbRids, hbCount, watcherPc, onceDone, monExists, monHostRid, monPc,
          monStarts, monStopChan, reportRids, monCount, monLast, remote, crashed>>

cfgVars == <<mode, run, configPath, cfgUrl>>
regVars == <<hostRid, regPc, startResult, att, cfgHostRid, files, created>>
hbVars == <<hbPc, hbLast, hbStarts, hbStopChan, hbRids, hbCount>>
monVars ==
  <<monExists, monHostRid, monPc, monStarts, monStopChan, reportRids, monCount,
    monLast>>
watchVars == <<watcherPc, onceDone>>

\* ---- configuration file (internal/config) ------------------------------
LoadConfig(f, path) == f[path]

SaveConfig(f, path, rid) == [f EXCEPT ![path] = rid]

\* ---- local introspection: os.Hostname, getLocalIP, getOSVersion ---------
Loopback4 == "127.0.0.1"

Addrs == {Loopback4, "10.0.0.5", "192.168.1.7", "::1", "fe80::1"}

\* net.IP.IsLoopback / net.IP.To4() != nil
IsLoopback(a) == a \in {Loopback4, "::1"}

IsIPv4(a) == a \in {Loopback4, "10.0.0.5", "192.168.1.7"}

\* the host as the introspection sees it: whether os.Hostname succeeds,
\* whether net.LookupIP fails and what it returns, runtime.GOOS, whether
\* /etc/os-release is readable and has a PRETTY_NAME line, whether the
\* version command (uname -r, sw_vers) succeeds
Envs ==
  [hostname : BOOLEAN, lookupErr : {FALSE},
   addrs : UNION {[1..k -> Addrs] : k \in 0..MaxAddrs},
   goos : {"linux", "darwin", "freebsd"},
   osRelease : {"pretty", "plain", "absent"}, cmd : BOOLEAN]
    \cup [hostname : BOOLEAN, lookupErr : {TRUE}, addrs : {<<>>},
          goos : {"linux", "darwin", "freebsd"},
          osRelease : {"pretty", "plain", "absent"}, cmd : BOOLEAN]

\* a routable Linux host without /etc/os-release whose uname works
GoodEnv ==
  [hostname |-> TRUE, lookupErr |-> FALSE, addrs |-> <<"10.0.0.5">>,
   goos |-> "linux", osRelease |-> "absent", cmd |-> TRUE]

SampleEnvs ==
  {GoodEnv, [GoodEnv EXCEPT !.hostname = FALSE],
   [GoodEnv EXCEPT !.lookupErr = TRUE, !.addrs = <<>>]}

NoEnv == [GoodEnv EXCEPT !.hostname = FALSE, !.addrs = <<>>, !.goos = "none"]

\* the loop of getLocalIP over addrs
RECURSIVE FirstRoutable(_)
FirstRoutable(addrs) ==
  IF addrs = <<>> THEN Loopback4
  ELSE IF ~IsLoopback(Head(addrs)) /\ IsIPv4(Head(addrs)) THEN Head(addrs)
  ELSE FirstRoutable(Tail(addrs))

\* getLocalIP: an error of os.Hostname or of net.LookupIP is returned
getLocalIP(env) ==
  IF ~env.hostname \/ env.lookupErr THEN [err |-> TRUE, ip |-> ""]
  ELSE [err |-> FALSE, ip |-> FirstRoutable(env.addrs)]

\* getOSVersion never returns an error
getOSVersion(env) ==
  [err |-> FALSE,
   version |->
     CASE env.goos = "linux" ->
            IF env.osRelease = "pretty" THEN "Ubuntu 22.04"
            ELSE IF env.cmd THEN "Linux 6.1" ELSE "Linux"
       [] env.goos = "darwin" -> IF env.cmd THEN "macOS 14.0" ELSE "macOS"
       [] OTHER -> env.goos]

SysOutcomes == {"ok", "hostname_err", "ip_err"}

\* Start, "Get system information": how far it gets and the ipAddress and
\* osVersion it hands to registerHost
LocalInfo(env) ==
  [outcome |-> IF ~env.hostname THEN "hostname_err"
               ELSE IF getLocalIP(env).err THEN "ip_err" ELSE "ok",
   ip |-> getLocalIP(env).ip,
   osVersion |-> IF getOSVersion(env).err THEN "Unknown"
                 ELSE getOSVersion(env).version,
   env |-> env]

NoSys == [outcome |-> "none", ip |-> "", osVersion |-> "", env |-> NoEnv]

\* ---- registerHost bookkeeping -----------------------------------------
NoAttempt ==
  [entered |-> FALSE, persisted |-> NoRid, lookups |-> 0, creates |-> 0,
   saves |-> 0, lookup |-> "none", create |-> "none", rid |-> NoRid,
   sys |-> NoSys]

NewAttempt(persisted) == [NoAttempt EXCEPT !.entered = TRUE, !.persisted = persisted]

\* the hosts the agent runs on: every one where the introspection is
\* examined, otherwise one for each way Start can go
HostEnvs == IF mode = "sysinfo" THEN Envs ELSE SampleEnvs

\* outcomes of GetApiV1HostsHostRidWithResponse that registerHost tells apart
LookupOutcomes ==
  IF remote = "down" THEN {"neterr"}
  ELSE {"found", "notfound", "httperr", "nobody"}

\* outcomes of PostApiV1HostsWithResponse that registerHost tells apart
CreateOutcomes ==
  IF remote = "down" THEN {"neterr"}
  ELSE {"created", "status", "nobody"}

\* outcomes of PostApiV1HostsHostRidHeartbeatWithResponse
HeartbeatOutcomes ==
  IF remote = "down" THEN {"transport"} ELSE {"ok", "status"}

NoBeat == [loop |-> 0, out |-> "none"]

\* where a loop is when its goroutine begins: startHeartbeat creates its
\* ticker and selects
FirstHbPc == "wait"

FirstMonPcSelect == "wait"

\* monitorLoop creates its ticker and calls reportSystemdServices ("Run
\* immediately on start") before it selects
FirstMonPc == "report"

\* ticks and calls of the loops are counted, up to a bound, where their
\* services have callers that stop them
NoCount == [ticks |-> 0, calls |-> 0]

Tally(n, max) == IF mode = "active" /\ n < max THEN n + 1 ELSE n

NoCreation == [rid |-> NoRid, saved |-> FALSE, thisRun |-> FALSE]

\* ---- strings (sequences of one-character strings) ----------------------------
NL == "\n"

\* unicode.IsSpace, on the characters that occur
IsSpace(c) == c \in {" ", "\t", NL, "\r"}

Min(S) == CHOOSE x \in S : \A y \in S : x <= y

Max(S) == CHOOSE x \in S : \A y \in S : y <= x

\* the positions of s that hold a space / that hold no space
Spaces(s) == {i \in 1..Len(s) : IsSpace(s[i])}

NonSpaces(s) == {i \in 1..Len(s) : ~IsSpace(s[i])}

\* strings.TrimSpace
TrimSpace(s) ==
  IF NonSpaces(s) = {} THEN <<>>
  ELSE SubSeq(s, Min(NonSpaces(s)), Max(NonSpaces(s)))

\* strings.Split(s, sep) for a one-character separator
RECURSIVE Split(_, _)
Split(s, sep) ==
  LET at == {i \in 1..Len(s) : s[i] = sep}
  IN IF at = {} THEN <<s>>
     ELSE <<SubSeq(s, 1, Min(at) - 1)>> \o Split(SubSeq(s, Min(at) + 1, Len(s)), sep)

\* strings.Fields: the maximal runs of non-space characters
RECURSIVE Fields(_)
Fields(s) ==
  IF NonSpaces(s) = {} THEN <<>>
  ELSE LET b == Min(NonSpaces(s))
           after == {i \in Spaces(s) : i > b}
           e == IF after = {} THEN Len(s) ELSE Min(after) - 1
       IN <<SubSeq(s, b, e)>> \o Fields(SubSeq(s, e + 1, Len(s)))

\* strings.Join(parts, sep)
RECURSIVE Join(_, _)
Join(parts, sep) ==
  IF parts = <<>> THEN <<>>
  ELSE IF Len(parts) = 1 THEN parts[1]
  ELSE parts[1] \o sep \o Join(Tail(parts), sep)

\* ---- getSystemdServices: parsing the output of systemctl ---------------------
SystemdUnit(parts) ==
  [Unit |-> parts[1], Load |-> parts[2], Active |-> parts[3], Sub |-> parts[4],
   Description |-> Join(SubSeq(parts, 5, Len(parts)), <<" ">>)]

ParseLineFiveFields(rawLine) ==
  LET parts == Fields(TrimSpace(rawLine))
  IN IF Len(parts) < 5 THEN <<>> ELSE <<SystemdUnit(parts)>>

\* the records one line adds to services
ParseLine(rawLine) ==
  LET line == TrimSpace(rawLine)
      parts == Fields(line)
  IN IF line = <<>> THEN <<>>
     ELSE IF Len(parts) < 5
       THEN (IF Len(parts) >= 4 THEN <<SystemdUnit(parts)>> ELSE <<>>)
       ELSE <<SystemdUnit(parts)>>

RECURSIVE ParseLines(_)
ParseLines(lines) ==
  IF lines = <<>> THEN <<>>
  ELSE ParseLine(Head(lines)) \o ParseLines(Tail(lines))

\* the services getSystemdServices returns for the standard output output
ParseUnits(output) == ParseLines(Split(TrimSpace(output), NL))

\* ---- what systemctl prints -----------------------------------------------------
\* a line is n words, separated by sep, with pad before and after; word k of
\* line i is the k-th letter (doubled in the second wording) and the digit i
Letters == <<"u", "l", "a", "s", "d", "e", "f", "g", "h">>

Digits == <<"1", "2", "3", "4">>

\* word k of line i
Word(v, i, k) ==
  IF v = 1 THEN <<Letters[k], Digits[i]>> ELSE <<Letters[k], Letters[k], Digits[i]>>

Seps == {<<" ">>, <<" ", "\t", " ">>}

Pads == {<<>>, <<" ">>}

LineShapes == [n : 0..MaxFields, sep : Seps, pad : Pads]

OutputShapes ==
  [lines : UNION {[1..k -> LineShapes] : k \in 0..MaxLines},
   v : {1, 2}, endNL : BOOLEAN]

RenderLine(l, v, i) ==
  l.pad \o Join([k \in 1..l.n |-> Word(v, i, k)], l.sep) \o l.pad

\* the standard output of systemctl for the shape sh
Render(sh) ==
  Join([i \in 1..Len(sh.lines) |-> RenderLine(sh.lines[i], sh.v, i)], <<NL>>)
    \o (IF sh.endNL THEN <<NL>> ELSE <<>>)

\* sshd.service loaded active running OpenSSH server / cron.service loaded
\* active running
TwoUnits ==
  [lines |-> <<[n |-> 6, sep |-> <<" ">>, pad |-> <<>>],
               [n |-> 4, sep |-> <<" ">>, pad |-> <<>>]>>,
   v |-> 1, endNL |-> TRUE]

\* a malformed line followed by a unit with a one-word description
OneUnit ==
  [lines |-> <<[n |-> 3, sep |-> <<" ">>, pad |-> <<" ">>],
               [n |-> 5, sep |-> <<" ", "\t", " ">>, pad |-> <<>>]>>,
   v |-> 2, endNL |-> TRUE]

\* what running systemctl can do: the binary is absent, it exits with code
\* 1 or with another non-zero code, it cannot be executed (permission
\* denied), or it prints the units of a shape
EmptyShape == [lines |-> <<>>, v |-> 1, endNL |-> FALSE]

ExecFailures == {"nobinary", "exit1", "exit", "perm"}

\* the outputs systemctl prints: every shape where the parser is examined, two
\* where the monitor is driven by its callers, one in the whole agent
UnitOutputs ==
  IF mode = "parse" THEN OutputShapes
  ELSE IF mode \in {"polling", "fixed"} THEN {TwoUnits}
  ELSE {TwoUnits, OneUnit}

CollectorRuns ==
  [kind : ExecFailures, shape : {EmptyShape}]
    \cup [kind : {"ok"}, shape : UnitOutputs]

\* getSystemdServices: the services (nil or a list) and whether an error is
\* returned
getSystemdServices(r) ==
  IF r.kind = "nobinary" THEN [services |-> <<>>, nil |-> FALSE, err |-> FALSE]
  ELSE IF r.kind # "ok" THEN [services |-> <<>>, nil |-> TRUE, err |-> TRUE]
  ELSE [services |-> ParseUnits(Render(r.shape)), nil |-> FALSE, err |-> FALSE]

\* reportSystemdServices: the request body built from what the collector
\* returned (an error is logged and replaced by the empty list)
ReportBody(g) ==
  IF g.err THEN [services |-> <<>>, nil |-> FALSE]
  ELSE [services |-> g.services, nil |-> g.nil]

NoBody == [services |-> <<>>, nil |-> TRUE]

NoReport ==
  [loop |-> 0, run |-> [kind |-> "none", shape |-> EmptyShape], body |-> NoBody,
   out |-> "none"]

\* ---- process state at construction ---------------------------------------
NoLoops(ids) == [i \in ids |-> "none"]

InitFiles == {[p \in Paths |-> IF p = path THEN r ELSE NoRid] :
                path \in Paths, r \in {NoRid} \cup Rids}

Fresh ==
  /\ hostRid = NoRid /\ regPc = "idle" /\ startResult = "none" /\ att = NoAttempt
  /\ hbPc = NoLoops(HbIds) /\ hbLast = NoBeat /\ hbStarts = 0
  /\ hbStopChan = "open" /\ hbRids = {} /\ hbCount = NoCount
  /\ watcherPc = "none" /\ onceDone = FALSE
  /\ monExists = FALSE /\ monHostRid = NoRid /\ monPc = NoLoops(MonIds)
  /\ monStarts = 0 /\ monStopChan = "open" /\ reportRids = {}
  /\ monCount = NoCount
  /\ monLast = NoReport
  /\ crashed = FALSE

Init ==
  /\ mode \in {"polling", "fixed"}
  /\ run = 1
  /\ created = NoCreation
  /\ configPath \in Paths
  /\ files \in {f \in InitFiles : \A p \in Paths : p # configPath => f[p] = NoRid}
  /\ cfgUrl \in BOOLEAN
  /\ mainPc = "load"
  /\ cfgHostRid = NoRid
  /\ clientOk = FALSE
  /\ remote \in {"up", "down"}
  /\ Fresh

ApiInit ==
  /\ mode = "api"
  /\ run = 1
  /\ created = NoCreation
  /\ configPath = DefaultPath
  /\ files \in {f \in InitFiles : \A p \in Paths : p # configPath => f[p] = NoRid}
  /\ cfgUrl \in BOOLEAN
  /\ mainPc = "api"
  /\ cfgHostRid = LoadConfig(files, configPath)
  /\ clientOk \in BOOLEAN
  /\ remote \in {"up", "down"}
  /\ Fresh

\* a SystemdMonitorService constructed by its caller with the host RID rid
\* of a registration service that has finished Start
MonApiInit ==
  /\ mode = "monapi"
  /\ run = 1
  /\ created = NoCreation
  /\ configPath = DefaultPath
  /\ files = [p \in Paths |-> NoRid]
  /\ cfgUrl = TRUE
  /\ mainPc = "api"
  /\ clientOk = TRUE
  /\ remote \in {"up", "down"}
  /\ \E rid \in {NoRid} \cup Rids :
       /\ hostRid = rid /\ cfgHostRid = rid
       /\ monExists = TRUE /\ monHostRid = rid
  /\ regPc = "idle" /\ startResult = "none" /\ att = NoAttempt
  /\ hbPc = NoLoops(HbIds) /\ hbLast = NoBeat /\ hbStarts = 0
  /\ hbStopChan = "open" /\ hbRids = {} /\ hbCount = NoCount
  /\ watcherPc = "none" /\ onceDone = FALSE
  /\ monPc = NoLoops(MonIds) /\ monStarts = 0 /\ monStopChan = "open"
  /\ reportRids = {} /\ monCount = NoCount /\ monLast = NoReport
  /\ crashed = FALSE

\* a started monitor about to collect, on a host whose systemctl prints any of
\* the outputs of OutputShapes
ParseInit ==
  /\ mode = "parse"
  /\ run = 1
  /\ created = NoCreation
  /\ configPath = DefaultPath
  /\ files = [p \in Paths |-> NoRid]
  /\ cfgUrl = TRUE
  /\ mainPc = "api"
  /\ clientOk = TRUE
  /\ remote \in {"up", "down"}
  /\ hostRid = "h1" /\ cfgHostRid = "h1"
  /\ monExists = TRUE /\ monHostRid = "h1"
  /\ regPc = "idle" /\ startResult = "none" /\ att = NoAttempt
  /\ hbPc = NoLoops(HbIds) /\ hbLast = NoBeat /\ hbStarts = 0
  /\ hbStopChan = "open" /\ hbRids = {} /\ hbCount = NoCount
  /\ watcherPc = "none" /\ onceDone = FALSE
  /\ monPc = [i \in MonIds |-> IF i = 1 THEN FirstMonPc ELSE "none"]
  /\ monStarts = 1 /\ monStopChan = "open"
  /\ reportRids = {} /\ monCount = NoCount /\ monLast = NoReport
  /\ crashed = FALSE

\* a HostRegistrationService with a URL and a client, on any host of Envs,
\* before its caller calls Start
SysInfoInit ==
  /\ mode = "sysinfo"
  /\ run = 1
  /\ created = NoCreation
  /\ configPath = DefaultPath
  /\ files \in {f \in InitFiles : f[DefaultPath] \in {NoRid, "h1"} /\ f["alt.yaml"] = NoRid}
  /\ cfgUrl = TRUE
  /\ mainPc = "api"
  /\ cfgHostRid = LoadConfig(files, configPath)
  /\ clientOk = TRUE
  /\ remote \in {"up", "down"}
  /\ Fresh

\* the agent after startup, with callers that may stop its services: with a
\* URL, Start has found the persisted host "h1" and spawned the heartbeat
\* loop, and a monitor built with "h1" has been started; without a URL, Start
\* was skipped and the monitor, built with the empty host RID, is not running
ActiveInit ==
  /\ mode = "active"
  /\ run = 1
  /\ created = NoCreation
  /\ configPath = DefaultPath
  /\ mainPc = "api"
  /\ clientOk = TRUE
  /\ remote \in {"up", "down"}
  /\ cfgUrl \in BOOLEAN
  /\ regPc = "idle"
  /\ hbLast = NoBeat /\ hbStopChan = "open" /\ hbRids = {} /\ hbCount = NoCount
  /\ watcherPc = "none" /\ onceDone = FALSE
  /\ monExists = TRUE /\ monStopChan = "open"
  /\ reportRids = {} /\ monCount = NoCount /\ monLast = NoReport
  /\ crashed = FALSE
  /\ IF cfgUrl
       THEN /\ files = [p \in Paths |-> IF p = DefaultPath THEN "h1" ELSE NoRid]
            /\ hostRid = "h1" /\ cfgHostRid = "h1" /\ monHostRid = "h1"
            /\ startResult = "ok"
            /\ att = [NewAttempt("h1") EXCEPT !.sys = LocalInfo(GoodEnv),
                                              !.lookups = 1, !.lookup = "found"]
            /\ hbStarts = 1
            /\ hbPc = [i \in HbIds |-> IF i = 1 THEN FirstHbPc ELSE "none"]
            /\ monStarts = 1
            /\ monPc = [i \in MonIds |-> IF i = 1 THEN FirstMonPc ELSE "none"]
       ELSE /\ files = [p \in Paths |-> NoRid]
            /\ hostRid = NoRid /\ cfgHostRid = NoRid /\ monHostRid = NoRid
            /\ startResult = "skipped" /\ att = NoAttempt
            /\ hbStarts = 0 /\ hbPc = NoLoops(HbIds)
            /\ monStarts = 0 /\ monPc = NoLoops(MonIds)

\* ---- HostRegistrationService ---------------------------------------------
\* `go s.startHeartbeat()`: the new goroutine waits in its select
SpawnHeartbeat ==
  /\ hbStarts' = hbStarts + 1
  /\ hbPc' = [i \in HbIds |-> IF i = hbStarts + 1 THEN FirstHbPc ELSE hbPc[i]]
  /\ UNCHANGED <<hbLast, hbStopChan, hbRids, hbCount>>

\* Start up to the first client call of registerHost; sys is the LocalInfo
\* of the host
Start(sys) ==
  /\ UNCHANGED <<hostRid, cfgHostRid, files, created>>
  /\ IF ~cfgUrl
       THEN startResult' = "skipped" /\ att' = NoAttempt /\ UNCHANGED regPc
       ELSE IF sys.outcome # "ok"
         THEN /\ startResult' = "error"
              /\ att' = [NoAttempt EXCEPT !.sys = sys]
              /\ UNCHANGED regPc
         ELSE /\ startResult' = "running"
              /\ att' = [NewAttempt(cfgHostRid) EXCEPT !.sys = sys]
              /\ regPc' = IF cfgHostRid # NoRid THEN "lookup" ELSE "create"

\* RegLookupResult without the `return nil` of the found branch: registerHost
\* goes on to create a host although the persisted one exists
RegLookupResultFallthrough(out) ==
  /\ att' = [att EXCEPT !.lookups = @ + 1, !.lookup = out]
  /\ UNCHANGED <<cfgHostRid, files, created>>
  /\ CASE out = "neterr" ->
            /\ regPc' = "idle" /\ startResult' = "error"
            /\ UNCHANGED <<hostRid, hbVars>>
       [] out = "found" ->
            /\ hostRid' = cfgHostRid
            /\ regPc' = "create"
            /\ UNCHANGED <<startResult, hbVars>>
       [] OTHER ->
            /\ regPc' = "create"
            /\ UNCHANGED <<hostRid, startResult, hbVars>>

\* RegLookupResult with Start only logging the error of registerHost: the
\* heartbeat goroutine is spawned although registration failed
RegLookupResultIgnoreError(out) ==
  /\ att' = [att EXCEPT !.lookups = @ + 1, !.lookup = out]
  /\ UNCHANGED <<cfgHostRid, files, created>>
  /\ CASE out = "neterr" ->
            /\ regPc' = "idle" /\ startResult' = "error"
            /\ UNCHANGED hostRid
            /\ SpawnHeartbeat
       [] out = "found" ->
            /\ hostRid' = cfgHostRid
            /\ regPc' = "idle" /\ startResult' = "ok"
            /\ SpawnHeartbeat
       [] OTHER ->
            /\ regPc' = "create"
            /\ UNCHANGED <<hostRid, startResult, hbVars>>

\* registerHost, the lookup of the persisted host RID, and what Start does
\* with its result
RegLookupResult(out) ==
  /\ att' = [att EXCEPT !.lookups = @ + 1, !.lookup = out]
  /\ UNCHANGED <<cfgHostRid, files, created>>
  /\ CASE out = "neterr" ->
            /\ regPc' = "idle" /\ startResult' = "error"
            /\ UNCHANGED <<hostRid, hbVars>>
       [] out = "found" ->
            /\ hostRid' = cfgHostRid
            /\ regPc' = "idle" /\ startResult' = "ok"
            /\ SpawnHeartbeat
       [] OTHER ->
            /\ regPc' = "create"
            /\ UNCHANGED <<hostRid, startResult, hbVars>>

RegLookup ==
  /\ regPc = "lookup" /\ ~crashed
  /\ IF ~clientOk
       THEN crashed' = TRUE /\ UNCHANGED <<regVars, hbVars>>
       ELSE /\ \E out \in LookupOutcomes : RegLookupResult(out)
            /\ UNCHANGED crashed
  /\ UNCHANGED <<cfgVars, mainPc, clientOk, watchVars, monVars, remote>>

\* RegCreateResult without `s.config.HostRegistration.HostRid = s.hostRid`:
\* the new host RID never reaches the configuration
RegCreateResultNoPersist(out, rid, saved) ==
  /\ regPc' = "idle"
  /\ IF out = "created"
       THEN /\ hostRid' = rid
            /\ UNCHANGED <<cfgHostRid, files, created>>
            /\ att' = [att EXCEPT !.creates = @ + 1, !.create = out,
                                  !.rid = rid, !.saves = @ + 1]
            /\ startResult' = "ok"
            /\ SpawnHeartbeat
       ELSE /\ att' = [att EXCEPT !.creates = @ + 1, !.create = out]
            /\ startResult' = "error"
            /\ UNCHANGED <<hostRid, cfgHostRid, files, created, hbVars>>

\* RegCreateResult without the check of the status code: whatever the
\* response carries is taken as the new host
RegCreateResultAnyStatus(out, rid, saved) ==
  /\ regPc' = "idle"
  /\ IF out \in {"created", "status"}
       THEN /\ hostRid' = rid
            /\ cfgHostRid' = rid
            /\ files' = IF saved THEN SaveConfig(files, DefaultPath, rid) ELSE files
            /\ created' = [rid |-> rid, saved |-> saved, thisRun |-> TRUE]
            /\ att' = [att EXCEPT !.creates = @ + 1, !.create = out,
                                  !.rid = rid, !.saves = @ + 1]
            /\ startResult' = "ok"
            /\ SpawnHeartbeat
       ELSE /\ att' = [att EXCEPT !.creates = @ + 1, !.create = out]
            /\ startResult' = "error"
            /\ UNCHANGED <<hostRid, cfgHostRid, files, created, hbVars>>

\* registerHost, the creation of a new host, and what Start does with its
\* result; rid is the host RID of the response, saved tells whether
\* SaveConfig succeeded
RegCreateResult(out, rid, saved) ==
  /\ regPc' = "idle"
  /\ IF out = "created"
       THEN /\ hostRid' = rid
            /\ cfgHostRid' = rid
            /\ files' = IF saved THEN SaveConfig(files, DefaultPath, rid) ELSE files
            /\ created' = [rid |-> rid, saved |-> saved, thisRun |-> TRUE]
            /\ att' = [att EXCEPT !.creates = @ + 1, !.create = out,
                                  !.rid = rid, !.saves = @ + 1]
            /\ startResult' = "ok"
            /\ SpawnHeartbeat
       ELSE /\ att' = [att EXCEPT !.creates = @ + 1, !.create = out]
            /\ startResult' = "error"
            /\ UNCHANGED <<hostRid, cfgHostRid, files, created, hbVars>>

RegCreate ==
  /\ regPc = "create" /\ ~crashed
  /\ IF ~clientOk
       THEN crashed' = TRUE /\ UNCHANGED <<regVars, hbVars>>
       ELSE /\ \E out \in CreateOutcomes, rid \in Rids, saved \in BOOLEAN :
                 RegCreateResult(out, rid, saved)
            /\ UNCHANGED crashed
  /\ UNCHANGED <<cfgVars, mainPc, clientOk, watchVars, monVars, remote>>

\* ---- startHeartbeat / sendHeartbeat --------------------------------------
\* case <-ticker.C: sendHeartbeat issues the call addressed to s.hostRid
HbTick(i) ==
  /\ hbPc[i] = "wait" /\ ~crashed
  /\ hbPc' = [hbPc EXCEPT ![i] = "send"]
  /\ hbRids' = hbRids \cup {hostRid}
  /\ hbCount' = [ticks |-> Tally(hbCount.ticks, MaxTicks),
                  calls |-> Tally(hbCount.calls, MaxTicks)]
  /\ UNCHANGED <<hbLast, hbStarts, hbStopChan>>
  /\ UNCHANGED <<cfgVars, mainPc, clientOk, regVars, watchVars, monVars, remote,
                 crashed>>

\* HbAfterSend with a retry of the failed call inside sendHeartbeat
HbAfterSendRetry(out) == IF out = "ok" THEN "wait" ELSE "send"

\* HbAfterSend with a `return` in the error branch: a failed beat ends the loop
HbAfterSendQuitOnError(out) == IF out = "ok" THEN "wait" ELSE "exited"

\* where the loop goes after sendHeartbeat returned out
HbAfterSend(out) == "wait"

\* the call returns; an error is logged and the loop selects again
HbResponse(i) ==
  /\ hbPc[i] = "send" /\ ~crashed
  /\ \E out \in HeartbeatOutcomes :
       /\ hbLast' = [loop |-> i, out |-> out]
       /\ hbPc' = [hbPc EXCEPT ![i] = HbAfterSend(out)]
  /\ UNCHANGED <<hbStarts, hbStopChan, hbRids, hbCount>>
  /\ UNCHANGED <<cfgVars, mainPc, clientOk, regVars, watchVars, monVars, remote,
                 crashed>>

\* HbExit with a stop that also ends a loop in the middle of sendHeartbeat
HbExitAbort(i) ==
  /\ hbPc[i] \in {"wait", "send"} /\ ~crashed
  /\ hbStopChan = "closed"
  /\ hbPc' = [hbPc EXCEPT ![i] = "exited"]
  /\ UNCHANGED <<hbLast, hbStarts, hbStopChan, hbRids, hbCount>>
  /\ UNCHANGED <<cfgVars, mainPc, clientOk, regVars, watchVars, monVars, remote,
                 crashed>>

\* case <-s.stopChan: return
HbExit(i) ==
  /\ hbPc[i] = "wait" /\ ~crashed
  /\ hbStopChan = "closed"
  /\ hbPc' = [hbPc EXCEPT ![i] = "exited"]
  /\ UNCHANGED <<hbLast, hbStarts, hbStopChan, hbRids, hbCount>>
  /\ UNCHANGED <<cfgVars, mainPc, clientOk, regVars, watchVars, monVars, remote,
                 crashed>>

\* HostRegistrationService.Stop: closing a closed channel panics
HbStop ==
  IF ~cfgUrl THEN UNCHANGED <<hbStopChan, crashed>>
  ELSE IF hbStopChan = "closed"
    THEN crashed' = TRUE /\ UNCHANGED hbStopChan
    ELSE hbStopChan' = "closed" /\ UNCHANGED crashed

\* ---- SystemdMonitorService -----------------------------------------------
\* NewSystemdMonitorService(cfg, apiClient, rid)
NewSystemdMonitorService(rid) ==
  /\ monExists' = TRUE
  /\ monHostRid' = rid
  /\ monStopChan' = "open"

\* SystemdMonitorService.Start on a service constructed with rid
MonitorStart(rid) ==
  IF rid = NoRid
    THEN UNCHANGED <<monPc, monStarts>>
    ELSE /\ monStarts' = monStarts + 1
         /\ monPc' = [i \in MonIds |->
                        IF i = monStarts + 1 THEN FirstMonPc ELSE monPc[i]]

MonAfterCollectSkipOnError(g) == IF g.err THEN "wait" ELSE "put"

\* reportSystemdServices: after the collection the PUT is issued
MonAfterCollect(g) == "put"

\* the results of the PUT: transport error, 200, another status
PutOutcomes == IF remote = "down" THEN {"transport"} ELSE {"ok", "status"}

MonAfterPutRetry(out) == IF out = "ok" THEN "wait" ELSE "report"

\* reportSystemdServices returns after the PUT whatever its result, and
\* monitorLoop selects
MonAfterPut(out) == "wait"

\* reportSystemdServices, first half: collect, then issue the report call
\* addressed to s.hostRid (first on entry of monitorLoop, then on every tick)
MonReport(i) ==
  /\ monPc[i] = "report" /\ ~crashed
  /\ \E r \in CollectorRuns :
       LET g == getSystemdServices(r) IN
       /\ monPc' = [monPc EXCEPT ![i] = MonAfterCollect(g)]
       /\ IF MonAfterCollect(g) = "put"
            THEN /\ reportRids' = reportRids \cup {monHostRid}
                 /\ monCount' = [monCount EXCEPT
                                    !.calls = Tally(@, MaxTicks + 1)]
                 /\ monLast' = [loop |-> i, run |-> r, body |-> ReportBody(g),
                                out |-> "none"]
            ELSE UNCHANGED <<reportRids, monCount, monLast>>
  /\ UNCHANGED <<monExists, monHostRid, monStarts, monStopChan>>
  /\ UNCHANGED <<cfgVars, mainPc, clientOk, regVars, hbVars, watchVars, remote,
                 crashed>>

\* reportSystemdServices, second half: the report call returns (any outcome
\* is logged only); the loop selects
MonResponse(i) ==
  /\ monPc[i] = "put" /\ ~crashed
  /\ \E out \in PutOutcomes :
       /\ monPc' = [monPc EXCEPT ![i] = MonAfterPut(out)]
       /\ monLast' = IF monLast.loop = i THEN [monLast EXCEPT !.out = out]
                     ELSE monLast
  /\ UNCHANGED <<monExists, monHostRid, monStarts, monStopChan, reportRids,
                 monCount>>
  /\ UNCHANGED <<cfgVars, mainPc, clientOk, regVars, hbVars, watchVars, remote,
                 crashed>>

\* case <-ticker.C
MonTick(i) ==
  /\ monPc[i] = "wait" /\ ~crashed
  /\ monPc' = [monPc EXCEPT ![i] = "report"]
  /\ monCount' = [monCount EXCEPT !.ticks = Tally(@, MaxTicks)]
  /\ UNCHANGED <<monExists, monHostRid, monStarts, monStopChan, reportRids,
                 monLast>>
  /\ UNCHANGED <<cfgVars, mainPc, clientOk, regVars, hbVars, watchVars, remote,
                 crashed>>

\* case <-s.stopChan: return
MonExit(i) ==
  /\ monPc[i] = "wait" /\ ~crashed
  /\ monStopChan = "closed"
  /\ monPc' = [monPc EXCEPT ![i] = "exited"]
  /\ UNCHANGED <<monExists, monHostRid, monStarts, monStopChan, reportRids,
                 monCount, monLast>>
  /\ UNCHANGED <<cfgVars, mainPc, clientOk, regVars, hbVars, watchVars, remote,
                 crashed>>

\* SystemdMonitorService.Stop
MonStop ==
  IF monHostRid = NoRid THEN UNCHANGED <<monStopChan, crashed>>
  ELSE IF monStopChan = "closed"
    THEN crashed' = TRUE /\ UNCHANGED monStopChan
    ELSE monStopChan' = "closed" /\ UNCHANGED crashed

\* ---- main ------------------------------------------------------------------
\* config.LoadConfig(*configPath); a failure is fatal
MainLoadConfig ==
  /\ mainPc = "load"
  /\ \E ok \in BOOLEAN :
       IF ok THEN /\ cfgHostRid' = LoadConfig(files, configPath)
                  /\ mainPc' = "new"
             ELSE /\ mainPc' = "fatal"
                  /\ UNCHANGED cfgHostRid
  /\ UNCHANGED <<cfgVars, files, created, clientOk, hostRid, regPc, startResult,
                 att,
                 hbVars, watchVars, monVars, remote, crashed>>

\* services.NewHostRegistrationService(cfg): the client may fail to build
NewHostRegistrationService ==
  /\ mainPc = "new"
  /\ clientOk' \in BOOLEAN
  /\ mainPc' = "start"
  /\ UNCHANGED <<cfgVars, regVars, hbVars, watchVars, monVars, remote, crashed>>

\* hostRegService.Start(); its error is only logged, then main sleeps
MainStart ==
  /\ mainPc = "start"
  /\ \E env \in HostEnvs : Start(LocalInfo(env))
  /\ mainPc' = "sleep"
  /\ UNCHANGED <<cfgVars, clientOk, hbVars, watchVars, monVars, remote, crashed>>

\* MainSpawnWatcher with Start running in a goroutine of its own: the
\* watcher is spawned while registerHost may still be at work
MainSpawnWatcherEarly ==
  /\ mode = "polling" /\ mainPc = "sleep" /\ ~crashed
  /\ watcherPc' = "poll"
  /\ mainPc' = "blocked"
  /\ UNCHANGED <<cfgVars, clientOk, regVars, hbVars, onceDone, monVars, remote,
                 crashed>>

\* polling variant: after the sleep main spawns the watcher and blocks
MainSpawnWatcher ==
  /\ mode = "polling" /\ mainPc = "sleep" /\ regPc = "idle" /\ ~crashed
  /\ watcherPc' = "poll"
  /\ mainPc' = "blocked"
  /\ UNCHANGED <<cfgVars, clientOk, regVars, hbVars, onceDone, monVars, remote,
                 crashed>>

\* WatcherBody without the sync.Once and without the return: the watcher
\* keeps polling and starts a monitor at every poll that sees a host RID
WatcherBodyNoLatch(rid) ==
  IF rid # NoRid
    THEN /\ watcherPc' = "sleep"
         /\ onceDone' = TRUE
         /\ IF clientOk
              THEN /\ NewSystemdMonitorService(rid)
                   /\ MonitorStart(rid)
                   /\ UNCHANGED <<reportRids, monCount, monLast>>
              ELSE UNCHANGED monVars
    ELSE /\ watcherPc' = "sleep"
         /\ UNCHANGED <<onceDone, monVars>>

\* WatcherBody with the nil check of the client inverted: the watcher
\* returns without having started the monitor
WatcherBodyNilCheck(rid) ==
  IF rid # NoRid
    THEN /\ watcherPc' = "done"
         /\ onceDone' = TRUE
         /\ IF ~onceDone /\ ~clientOk
              THEN /\ NewSystemdMonitorService(rid)
                   /\ MonitorStart(rid)
                   /\ UNCHANGED <<reportRids, monCount, monLast>>
              ELSE UNCHANGED monVars
    ELSE /\ watcherPc' = "sleep"
         /\ UNCHANGED <<onceDone, monVars>>

\* what the watcher does with the host RID it read: the body of its loop
WatcherBody(rid) ==
  IF rid # NoRid
    THEN /\ watcherPc' = "done"
         /\ onceDone' = TRUE
         /\ IF ~onceDone /\ clientOk
              THEN /\ NewSystemdMonitorService(rid)
                   /\ MonitorStart(rid)
                   /\ UNCHANGED <<reportRids, monCount, monLast>>
              ELSE UNCHANGED monVars
    ELSE /\ watcherPc' = "sleep"
         /\ UNCHANGED <<onceDone, monVars>>

\* one iteration of the watcher goroutine
WatcherPoll ==
  /\ watcherPc = "poll" /\ ~crashed
  /\ WatcherBody(hostRid)
  /\ UNCHANGED <<cfgVars, mainPc, clientOk, regVars, hbVars, remote, crashed>>

\* time.Sleep(5 * time.Second) of the watcher is over
WatcherWake ==
  /\ watcherPc = "sleep" /\ ~crashed
  /\ watcherPc' = "poll"
  /\ UNCHANGED <<cfgVars, mainPc, clientOk, regVars, hbVars, onceDone, monVars,
                 remote, crashed>>

\* fixed-delay variant: after the sleep main starts the monitor if the host
\* RID is set, then blocks
MainFixedStartMonitor ==
  /\ mode = "fixed" /\ mainPc = "sleep" /\ regPc = "idle" /\ ~crashed
  /\ IF hostRid # NoRid /\ clientOk
       THEN /\ NewSystemdMonitorService(hostRid)
            /\ MonitorStart(hostRid)
            /\ UNCHANGED <<reportRids, monCount, monLast>>
       ELSE UNCHANGED monVars
  /\ mainPc' = "blocked"
  /\ UNCHANGED <<cfgVars, clientOk, regVars, hbVars, watchVars, remote, crashed>>

\* the operator kills the process and starts it again with the same flag
Restart ==
  /\ run < MaxRuns
  /\ run' = run + 1
  /\ mainPc' = "load"
  /\ cfgHostRid' = NoRid
  /\ clientOk' = FALSE
  /\ hostRid' = NoRid /\ regPc' = "idle" /\ startResult' = "none"
  /\ att' = NoAttempt
  /\ created' = [created EXCEPT !.thisRun = FALSE]
  /\ hbPc' = NoLoops(HbIds) /\ hbLast' = NoBeat /\ hbStarts' = 0
  /\ hbStopChan' = "open" /\ hbRids' = {} /\ hbCount' = NoCount
  /\ watcherPc' = "none" /\ onceDone' = FALSE
  /\ monExists' = FALSE /\ monHostRid' = NoRid /\ monPc' = NoLoops(MonIds)
  /\ monStarts' = 0 /\ monStopChan' = "open" /\ reportRids' = {}
  /\ monCount' = NoCount
  /\ monLast' = NoReport
  /\ crashed' = FALSE
  /\ UNCHANGED <<mode, configPath, cfgUrl, files, remote>>

\* ---- a caller of the package's exported methods ----------------------------
ApiStart ==
  /\ mode = "api" /\ regPc = "idle" /\ ~crashed
  /\ hbStarts < MaxStarts
  /\ \E env \in HostEnvs : Start(LocalInfo(env))
  /\ UNCHANGED <<cfgVars, mainPc, clientOk, hbVars, watchVars, monVars, remote,
                 crashed>>

\* the one Start of a caller, on any host of Envs
SysInfoStart ==
  /\ mode = "sysinfo" /\ regPc = "idle" /\ startResult = "none"
  /\ \E env \in HostEnvs : Start(LocalInfo(env))
  /\ UNCHANGED <<cfgVars, mainPc, clientOk, hbVars, watchVars, monVars, remote,
                 crashed>>

ApiStop ==
  /\ mode \in {"api", "active"} /\ regPc = "idle" /\ ~crashed
  /\ HbStop
  /\ UNCHANGED <<cfgVars, mainPc, clientOk, regVars, hbPc, hbLast, hbStarts,
                 hbRids, hbCount, watchVars, monVars, remote>>

ApiMonStart ==
  /\ mode = "monapi" /\ ~crashed
  /\ monExists
  /\ monStarts < MaxMonStarts
  /\ MonitorStart(monHostRid)
  /\ UNCHANGED <<monExists, monHostRid, monStopChan, reportRids, monCount,
                 monLast>>
  /\ UNCHANGED <<cfgVars, mainPc, clientOk, regVars, hbVars, watchVars, remote,
                 crashed>>

ApiMonStop ==
  /\ mode \in {"monapi", "active"} /\ ~crashed
  /\ monExists
  /\ MonStop
  /\ UNCHANGED <<monExists, monHostRid, monPc, monStarts, reportRids, monCount,
                 monLast>>
  /\ UNCHANGED <<cfgVars, mainPc, clientOk, regVars, hbVars, watchVars, remote>>

\* ---- environment -------------------------------------------------------------
\* the inventory service becomes unreachable / reachable
RemoteDown ==
  /\ remote = "up"
  /\ remote' = "down"
  /\ UNCHANGED <<cfgVars, mainPc, clientOk, regVars, hbVars, watchVars, monVars,
                 crashed>>

RemoteUp ==
  /\ remote = "down"
  /\ remote' = "up"
  /\ UNCHANGED <<cfgVars, mainPc, clientOk, regVars, hbVars, watchVars, monVars,
                 crashed>>

\* ---- specifications ----------------------------------------------------------
Registration == RegLookup \/ RegCreate

Watcher == WatcherPoll \/ WatcherWake

Main ==
  \/ MainLoadConfig
  \/ NewHostRegistrationService
  \/ MainStart
  \/ MainSpawnWatcher
  \/ MainFixedStartMonitor

Heartbeat(i) == HbTick(i) \/ HbResponse(i) \/ HbExit(i)

Monitor(i) == MonReport(i) \/ MonResponse(i) \/ MonTick(i) \/ MonExit(i)

Next ==
  \/ MainLoadConfig
  \/ NewHostRegistrationService
  \/ MainStart
  \/ MainSpawnWatcher
  \/ MainFixedStartMonitor
  \/ RegLookup
  \/ RegCreate
  \/ WatcherPoll
  \/ WatcherWake
  \/ \E i \in HbIds : HbTick(i)
  \/ \E i \in HbIds : HbResponse(i)
  \/ \E i \in MonIds : MonReport(i)
  \/ \E i \in MonIds : MonResponse(i)
  \/ \E i \in MonIds : MonTick(i)
  \/ RemoteDown
  \/ RemoteUp
  \/ Restart

Spec == Init /\ [][Next]_vars

\* the Go scheduler runs every runnable goroutine, timers fire and client
\* calls return (http.Client has a timeout); the environment is not obliged
\* to do anything
Fairness ==
  /\ WF_vars(Main)
  /\ WF_vars(Registration)
  /\ WF_vars(Watcher)
  /\ \A i \in HbIds : WF_vars(Heartbeat(i))
  /\ \A i \in MonIds : WF_vars(Monitor(i))

FairSpec == Spec /\ Fairness

ApiNext ==
  \/ ApiStart
  \/ ApiStop
  \/ RegLookup
  \/ RegCreate
  \/ \E i \in HbIds : HbTick(i)
  \/ \E i \in HbIds : HbResponse(i)
  \/ \E i \in HbIds : HbExit(i)
  \/ RemoteDown
  \/ RemoteUp

ApiSpec == ApiInit /\ [][ApiNext]_vars

ApiFairness ==
  /\ WF_vars(Registration)
  /\ \A i \in HbIds : WF_vars(Heartbeat(i))

FairApiSpec == ApiSpec /\ ApiFairness

MonApiNext ==
  \/ ApiMonStart
  \/ ApiMonStop
  \/ \E i \in MonIds : MonReport(i)
  \/ \E i \in MonIds : MonResponse(i)
  \/ \E i \in MonIds : MonTick(i)
  \/ \E i \in MonIds : MonExit(i)
  \/ RemoteDown
  \/ RemoteUp

MonApiSpec == MonApiInit /\ [][MonApiNext]_vars

\* both services after startup, their loops, and callers of the two Stops
ActiveNext ==
  \/ ApiStop
  \/ ApiMonStop
  \/ \E i \in HbIds : HbTick(i)
  \/ \E i \in HbIds : HbResponse(i)
  \/ \E i \in HbIds : HbExit(i)
  \/ \E i \in MonIds : MonReport(i)
  \/ \E i \in MonIds : MonResponse(i)
  \/ \E i \in MonIds : MonTick(i)
  \/ \E i \in MonIds : MonExit(i)
  \/ RemoteDown
  \/ RemoteUp

ActiveSpec == ActiveInit /\ [][ActiveNext]_vars

\* network calls and collections return; a select whose stop case is ready
\* again and again takes it at some point (Go chooses among the ready cases
\* at random)
ActiveFairness ==
  /\ \A i \in HbIds : WF_vars(HbResponse(i)) /\ SF_vars(HbExit(i))
  /\ \A i \in MonIds :
       WF_vars(MonReport(i)) /\ WF_vars(MonResponse(i)) /\ SF_vars(MonExit(i))

FairActiveSpec == ActiveSpec /\ ActiveFairness

\* one Start, for every host of Envs
SysInfoNext ==
  \/ SysInfoStart
  \/ Registration

SysInfoSpec == SysInfoInit /\ [][SysInfoNext]_vars

\* one reportSystemdServices of a monitor, for every output of systemctl
ParseNext ==
  \/ \E i \in MonIds : MonReport(i)
  \/ \E i \in MonIds : MonResponse(i)

ParseSpec == ParseInit /\ [][ParseNext]_vars

\* ---- properties --------------------------------------------------------------
HeartbeatFailures == {"transport", "status"}

\* C1: in both variants of main, whatever registration returned and however
\* often the watcher polled, a monitorLoop only runs for a non-empty host RID
\* and at most one monitorLoop is started in a process run.
C1_MonitorGuard ==
  /\ monStarts <= 1
  /\ \A i \in MonIds : monPc[i] # "none" => monHostRid # NoRid /\ monHostRid = hostRid
  /\ reportRids \subseteq Rids

C1_Witness == monStarts = 1 /\ watcherPc = "done" /\ reportRids # {}

\* C2: polling variant: when a poll of the watcher finds the host RID set,
\* the monitor loop and the heartbeat loop have each been started exactly once
\* when the watcher is done, neither is ever started twice, and the monitor
\* loop is eventually started (in that run: a restart, which puts main back
\* at "load", ends the run).
C2_SingleStart ==
  /\ [](mode = "polling" => monStarts <= 1 /\ hbStarts <= 1)
  /\ [](mode = "polling" /\ watcherPc = "done" => monStarts = 1 /\ hbStarts = 1)
  /\ (mode = "polling" /\ watcherPc = "poll" /\ hostRid # NoRid)
       ~> (mainPc = "load" \/ monStarts = 1)

C2_Witness == mode = "polling" /\ watcherPc = "done" /\ monStarts = 1 /\ hbStarts = 1

\* C3: registration retries in the background: when registerHost has failed
\* and the inventory service is reachable from some point on, the host RID
\* eventually is set and the monitor is eventually started.
C3_RetriesUntilRegistered ==
  (<>(att.entered /\ startResult = "error") /\ <>[](remote = "up"))
    => <>(hostRid # NoRid /\ monStarts = 1)

\* C4: a lookup of the persisted host RID that fails with a network error or
\* an HTTP error response makes registerHost return an error without a create
\* call.
C4_NoCreateAfterFailedLookup ==
  att.lookup \in {"neterr", "httperr"} =>
    att.creates = 0 /\ regPc = "idle" /\ startResult = "error"

\* C5: when the persisted host RID is found by the lookup, in the first run
\* and after every restart, the resolved host RID is the persisted one, no
\* create call is made and the configuration is neither changed nor saved.
C5_ReuseIdempotent ==
  att.lookup = "found" =>
    /\ att.persisted # NoRid
    /\ hostRid = att.persisted
    /\ startResult = "ok"
    /\ att.lookups = 1 /\ att.creates = 0 /\ att.saves = 0
    /\ cfgHostRid = att.persisted
    /\ files[configPath] = att.persisted

C5_Witness == run = 2 /\ att.lookup = "found" /\ hbRids # {}

\* C6: without a persisted host RID registerHost makes no lookup call and
\* exactly one create call; when the host is created, the host RID of the
\* service and of the configuration are the one of the response and SaveConfig
\* is called once.
C6_CreateOnce ==
  (att.entered /\ att.persisted = NoRid) =>
    /\ att.lookups = 0
    /\ att.creates = (IF regPc = "idle" THEN 1 ELSE 0)
    /\ att.create = "created" =>
         /\ att.rid \in Rids
         /\ hostRid = att.rid /\ cfgHostRid = att.rid
         /\ att.saves = 1
    /\ att.create # "created" => att.saves = 0

C6_Witness == att.persisted = NoRid /\ att.create = "created" /\ mainPc = "blocked"

C9_IdentityImmutable ==
  /\ [][hostRid # NoRid => hostRid' = hostRid]_vars
  /\ [](Cardinality(hbRids) <= 1)

\* C10: a heartbeat that fails leaves its loop waiting for the next tick
\* (neither ended nor retried at once), the next tick sends again unless the
\* service was stopped, and a loop only ends after Stop closed the channel.
C10_HeartbeatResilience ==
  /\ [][\A i \in HbIds :
          (hbPc[i] = "send" /\ hbPc'[i] # "send") => hbPc'[i] = "wait"]_vars
  /\ [](\A i \in HbIds : hbPc[i] = "exited" => hbStopChan = "closed")
  /\ \A i \in HbIds :
       (hbLast.loop = i /\ hbLast.out \in HeartbeatFailures /\ hbPc[i] = "wait")
         ~> (hbPc[i] = "send" \/ hbStopChan = "closed")

C10_Witness ==
  /\ hbLast.loop = 1 /\ hbLast.out = "transport"
  /\ hbPc[1] = "send" /\ hbStopChan = "open"

\* C11: a failing collector (systemctl absent, a non-zero exit of any code,
\* permission denied) is isolated: the collection never ends or crashes the
\* loop, the report is still submitted, with the empty list as its body, and
\* the loop goes on to its select.
EmptyList == [services |-> <<>>, nil |-> FALSE]

C11_CollectorFailureIsolated ==
  [][\A i \in MonIds :
       /\ (monPc[i] = "report" /\ monPc'[i] # "report") =>
            /\ monPc'[i] = "put" /\ crashed' = crashed
            /\ monLast'.loop = i /\ monLast'.out = "none"
            /\ monHostRid \in reportRids'
            /\ monLast'.run.kind \in ExecFailures => monLast'.body = EmptyList
       /\ (monPc[i] = "put" /\ monLast.loop = i
             /\ monLast.run.kind \in ExecFailures /\ monPc'[i] # "put") =>
            monPc'[i] = "wait" /\ crashed' = crashed]_vars

\* a collection that failed for want of permission was reported and answered,
\* and the loop has ticked again
C11_Witness ==
  /\ monLast.loop = 1 /\ monLast.run.kind = "perm" /\ monLast.body = EmptyList
  /\ monLast.out = "ok" /\ monPc[1] = "report"

\* the records of the lines of the shape sh from line i on: one for every
\* line of at least four words, made of its words
RECURSIVE ExpectedFrom(_, _)
ExpectedFrom(sh, i) ==
  IF i > Len(sh.lines) THEN <<>>
  ELSE LET n == sh.lines[i].n
           rec == [Unit |-> Word(sh.v, i, 1), Load |-> Word(sh.v, i, 2),
                   Active |-> Word(sh.v, i, 3), Sub |-> Word(sh.v, i, 4),
                   Description |->
                     Join([k \in 1..(n - 4) |-> Word(sh.v, i, k + 4)], <<" ">>)]
       IN (IF n >= 4 THEN <<rec>> ELSE <<>>) \o ExpectedFrom(sh, i + 1)

ExpectedUnits(sh) == ExpectedFrom(sh, 1)

\* what a collector run found
Snapshot(r) == IF r.kind = "ok" THEN ExpectedUnits(r.shape) ELSE <<>>

\* C12: a tick is one collection and one submission whose body is exactly that
\* tick's snapshot, in the collector's order; whatever the PUT returns, the
\* tick is over: the loop goes back to its select without a retry and no state
\* of the service changes.
C12_OneReportPerTick ==
  [][\A i \in MonIds :
       /\ (monPc[i] = "wait" /\ monPc'[i] # "wait") =>
            monPc'[i] \in {"report", "exited"} /\ monLast' = monLast
       /\ (monPc[i] = "report" /\ monPc'[i] # "report") =>
            /\ monPc'[i] = "put"
            /\ monLast'.loop = i
            /\ monLast'.body = [services |-> Snapshot(monLast'.run), nil |-> FALSE]
       /\ (monPc[i] = "put" /\ monPc'[i] # "put") =>
            /\ monPc'[i] = "wait"
            /\ monLast'.run = monLast.run /\ monLast'.body = monLast.body
            /\ UNCHANGED <<monExists, monHostRid, monStarts, monStopChan,
                           reportRids, hostRid>>]_vars

\* the PUT of a tick failed in transport, and the loop has ticked again
C12_Witness ==
  /\ monLast.loop = 1 /\ monLast.run = [kind |-> "ok", shape |-> OneUnit]
  /\ Len(monLast.body.services) = 1
  /\ monLast.out = "transport" /\ monPc[1] = "report"

\* C13: the parser makes one record per non-blank line of at least four
\* whitespace-separated fields, in the order of the lines; the description is
\* the fields from the fifth on joined by single spaces, empty for a line of
\* four fields; a line of fewer than four fields makes no record.
C13_ParserTolerance ==
  monLast.run.kind = "ok" =>
    monLast.body = [services |-> ExpectedUnits(monLast.run.shape), nil |-> FALSE]

\* a padded line of four fields separated by runs of blanks and tabs, then a
\* line of three fields: one record, with the empty description
C13_Witness ==
  /\ mode = "parse" /\ monLast.run.kind = "ok"
  /\ monLast.run.shape.lines =
       <<[n |-> 4, sep |-> <<" ", "\t", " ">>, pad |-> <<" ">>],
         [n |-> 3, sep |-> <<" ">>, pad |-> <<>>]>>
  /\ Len(monLast.body.services) = 1
  /\ monLast.body.services[1].Description = <<>>

\* C14: signalling Stop a second time, on the heartbeat service or on the
\* monitor service, is a no-op and never crashes the process.
C14_StopTwiceSafe ==
  (hbStopChan = "closed" \/ monStopChan = "closed") => ~crashed

\* C15: after any sequence of Start calls on one service, at most one of its
\* periodic loops is running.
C15_AtMostOneLoop ==
  Cardinality({i \in HbIds : hbPc[i] \in {"wait", "send"}}) <= 1

Running(pc) == pc \in {"wait", "send", "report", "put"}

\* C16: Stop never blocks (it can always be taken, whatever the loops are
\* doing and also when none was started), and a loop that is running when its
\* stop signal is closed eventually ends (with its goroutine or with the
\* process).
C16_CleanShutdown ==
  /\ [](~crashed => ENABLED ApiStop /\ ENABLED ApiMonStop)
  /\ \A i \in HbIds :
       (hbStopChan = "closed" /\ Running(hbPc[i])) ~> (hbPc[i] = "exited" \/ crashed)
  /\ \A i \in MonIds :
       (monStopChan = "closed" /\ Running(monPc[i]))
         ~> (monPc[i] = "exited" \/ crashed)

\* both loops were stopped, the heartbeat loop in the middle of a call, and
\* both have ended
C16_Witness ==
  /\ hbStopChan = "closed" /\ monStopChan = "closed" /\ ~crashed
  /\ hbPc[1] = "exited" /\ monPc[1] = "exited"
  /\ hbLast.loop = 1 /\ monLast.out # "none"

\* C17 as claimed: once a stop signal is closed, its loop initiates no new
\* heartbeat or report call, also when a tick is ready together with the stop.
C17_NoCallAfterStop ==
  [][/\ \A i \in HbIds :
          hbStopChan = "closed" => ~(hbPc[i] # "send" /\ hbPc'[i] = "send")
     /\ \A i \in MonIds :
          monStopChan = "closed" => ~(monPc[i] # "put" /\ monPc'[i] = "put")]_vars

\* C17 as amended: cancellation is cooperative. A loop ends only at its
\* select, with its stop signal closed and without making a call in that step;
\* a call in flight always completes and takes the loop back to its select; a
\* loop waiting at its select with the stop signal closed can exit at once.
\* (A tick ready at the same select may still be taken first.)
C17_CooperativeCancellation ==
  /\ [][/\ \A i \in HbIds :
             /\ (hbPc[i] # "exited" /\ hbPc'[i] = "exited") =>
                  /\ hbPc[i] = "wait" /\ hbStopChan = "closed"
                  /\ UNCHANGED <<hbRids, hbLast>>
             /\ (hbPc[i] = "send" /\ hbPc'[i] # "send") => hbPc'[i] = "wait"
        /\ \A i \in MonIds :
             /\ (monPc[i] # "exited" /\ monPc'[i] = "exited") =>
                  /\ monPc[i] = "wait" /\ monStopChan = "closed"
                  /\ UNCHANGED <<reportRids, monCount, monLast>>
             /\ (monPc[i] = "put" /\ monPc'[i] # "put") => monPc'[i] = "wait"]_vars
  /\ [](\A i \in HbIds :
          (hbPc[i] = "wait" /\ hbStopChan = "closed" /\ ~crashed)
            => ENABLED HbExit(i))
  /\ [](\A i \in MonIds :
          (monPc[i] = "wait" /\ monStopChan = "closed" /\ ~crashed)
            => ENABLED MonExit(i))

\* the heartbeat service was stopped with a call in flight, which has not
\* returned yet; the monitor loop has observed its stop and ended
C17_Witness ==
  /\ hbStopChan = "closed" /\ hbPc[1] = "send"
  /\ monStopChan = "closed" /\ monPc[1] = "exited" /\ ~crashed

\* C18: the two loops are independent: a loop whose own stop signal is open
\* keeps running, whatever happens to the other service.
C18_LoopsIndependent ==
  /\ (monStopChan = "open" /\ \E i \in MonIds : Running(monPc[i])) => ~crashed
  /\ (hbStopChan = "open" /\ \E i \in HbIds : Running(hbPc[i])) => ~crashed

\* the identity has a reader: a heartbeat loop, the watcher or a monitor
\* exists, or main has read GetHostRid itself
HasReader ==
  \/ \E i \in HbIds : hbPc[i] # "none"
  \/ watcherPc # "none"
  \/ monExists
  \/ mainPc = "blocked"

\* C19: in every interleaving of main, the watcher and the two loops no read
\* of the identity is concurrent with a write: while the process runs, from
\* the moment the identity has a reader registerHost is not at work and the
\* identity does not change any more.
C19_ReadsAfterLastWrite ==
  [][(run' = run /\ HasReader) => (regPc = "idle" /\ hostRid' = hostRid)]_vars

\* every reader has read the identity: the watcher saw it and built the
\* monitor, a heartbeat and a report were addressed to it
C19_Witness ==
  /\ mode = "polling" /\ watcherPc = "done" /\ monExists
  /\ hostRid # NoRid /\ monHostRid = hostRid
  /\ hbRids = {hostRid} /\ reportRids = {hostRid}

\* every detection step of getOSVersion fails on the host env
DetectionFails(env) ==
  \/ env.goos = "linux" /\ env.osRelease # "pretty" /\ ~env.cmd
  \/ env.goos = "darwin" /\ ~env.cmd

\* C20: whatever the address lookup and the OS-version detection do, Start
\* reaches the registration call, with the first non-loopback IPv4 address of
\* the lookup (the loopback address if there is none) and with the OS version
\* "Unknown" when every detection step fails.
C20_IntrospectionNeverBlocks ==
  (att.sys.outcome # "none" /\ att.sys.env.hostname) =>
    /\ att.entered
    /\ att.sys.ip = FirstRoutable(att.sys.env.addrs)
    /\ DetectionFails(att.sys.env) => att.sys.osVersion = "Unknown"

\* C21: a created identifier persists across restarts: when an earlier run
\* of the process created a host and saved its configuration, a run that
\* loads the configuration from the same path finds that host RID as the
\* persisted one, and if the host still exists it is reused without a create
\* call.
C21_CreatedPersists ==
  (created.rid # NoRid /\ created.saved /\ ~created.thisRun /\ att.entered) =>
    /\ att.persisted = created.rid
    /\ att.lookup = "found" => (att.creates = 0 /\ hostRid = created.rid)

\* C22: the monitor loop reports once when it begins, before its first tick,
\* and once per tick after that; the heartbeat loop sends one heartbeat per
\* tick and none before. So a monitor loop that ended without a tick has
\* issued exactly one report, and a heartbeat loop that ended without a tick
\* has sent nothing.
C22_FirstReportImmediate ==
  /\ hbCount.calls = hbCount.ticks
  /\ monCount.calls <= monCount.ticks + 1
  /\ \A i \in MonIds :
       monPc[i] \in {"put", "wait", "exited"} => monCount.calls = monCount.ticks + 1
  /\ \A i \in MonIds :
       (monPc[i] = "exited" /\ monCount.ticks = 0) =>
         (monCount.calls = 1 /\ reportRids = {monHostRid})
  /\ \A i \in HbIds :
       (hbPc[i] = "exited" /\ hbCount.ticks = 0) =>
         (hbCount.calls = 0 /\ hbRids = {})

\* both loops were stopped and ended before any tick: one report, no heartbeat
C22_Witness ==
  /\ hbPc[1] = "exited" /\ hbCount = [ticks |-> 0, calls |-> 0]
  /\ monPc[1] = "exited" /\ monCount = [ticks |-> 0, calls |-> 1]
  /\ monLast.out # "none" /\ ~crashed

====
